---- MODULE Spec2Model ----
(***************************************************************************)
(* Countdown: a countdown timer for the Pebble watch (src/src/countdown.c). *)
(*                                                                         *)
(* The program is a set of global variables mutated by four click handlers *)
(* and a one-second tick handler, which the Pebble event loop runs one at  *)
(* a time, each to completion.  Every handler is one action below.          *)
(***************************************************************************)
EXTENDS Integers, Sequences, FiniteSets, TLC

VARIABLES
    current_mode,    \* Modes current_mode
    init_val,        \* CounterData init_val: the edited ("reset-to") value
    curr_val,        \* CounterData curr_val: the value handed to the display
    timer_running,   \* bool timer_running
    seconds,         \* int seconds: seconds left in the countdown
    button_data,     \* ButtonData button_data[NUM_BUTTONS]
    display,         \* the statics of redisplay_min and redisplay_sec: min_text, last_min,
                     \* sec_text, last_sec (the texts are what the two layers show)
    text_layer,      \* text and background colour of the three text layers
    subscribed,      \* buttons whose click handlers the click config provider subscribed
    vibe_log,        \* number of vibration patterns enqueued by the handler of the last event
    banner_log,      \* background colours the handler of the last event gave the
                     \* "Time's Up" layer, in the order of the calls
    last_event,      \* history: the event handled last
    run_r,           \* history: seconds at the start of the observed run of ticks (0: none)
    run_k,           \* history: ticks delivered in the observed run
    run_vibes,       \* history: vibration patterns enqueued in the observed run
    select_hist,     \* history: the program states before the last short clicks on
                     \* Select (at most two, the latest first), while no other event came
    edit_before,     \* history: init_val before the last event
    wrap_n,          \* history: the edited value the press sequence started from
    wrap_count,      \* history: presses made in the press sequence
    wrap_dir         \* history: the button of the press sequence

progVars == <<current_mode, init_val, curr_val, timer_running, seconds, button_data,
              display, text_layer, subscribed>>
runVars  == <<last_event, run_r, run_k, run_vibes, select_hist, edit_before>>
wrapVars == <<wrap_n, wrap_count, wrap_dir>>
vars     == <<progVars, vibe_log, banner_log, runVars, wrapVars>>

----------------------------------------------------------------------------
(* Bounds of the exploration. *)

\* Minutes explored in edit mode: 0..MaxEditMin, and 59 (reached by wrapping).
MaxEditMin == 1
\* Seconds explored in edit mode: 0..MaxEditSec, and 59 (reached by wrapping).
MaxEditSec == 3
\* Longest run of ticks the history variables follow.
MaxObservedRun == 4
\* Presses made in a press sequence on one button.
MaxPresses == 60
\* Longest countdown (in seconds) started where eventual stopping is checked.
MaxLiveStart == 63

----------------------------------------------------------------------------
(* Types of the program. *)

MODE_EDIT_SEC == "MODE_EDIT_SEC"
MODE_EDIT_MIN == "MODE_EDIT_MIN"
MODE_RUN      == "MODE_RUN"
Modes == {MODE_EDIT_SEC, MODE_EDIT_MIN, MODE_RUN}

BUTTON_ID_BACK   == "BUTTON_ID_BACK"
BUTTON_ID_UP     == "BUTTON_ID_UP"
BUTTON_ID_SELECT == "BUTTON_ID_SELECT"
BUTTON_ID_DOWN   == "BUTTON_ID_DOWN"
ButtonId == {BUTTON_ID_BACK, BUTTON_ID_UP, BUTTON_ID_SELECT, BUTTON_ID_DOWN}

NOT_PRESENT == "NOT_PRESENT"
PRESENT     == "PRESENT"
\* A bitmap is identified by the resource it was created from.
NoBitmap == "NULL"
RESOURCE_ID_START_IMAGE == "START"
RESOURCE_ID_PAUSE_IMAGE == "PAUSE"
RESOURCE_ID_MODE_IMAGE  == "MODE"
RESOURCE_ID_RESET_IMAGE == "RESET"
RESOURCE_ID_PLUS_IMAGE  == "PLUS"
RESOURCE_ID_MINUS_IMAGE == "MINUS"

GColorBlack == "GColorBlack"
GColorWhite == "GColorWhite"
text_min_layer      == "text_min_layer"
text_sec_layer      == "text_sec_layer"
text_times_up_layer == "text_times_up_layer"

----------------------------------------------------------------------------
(* itoa: two-digit text of a value in 0..59, "!!" otherwise.  The guard     *)
(* sizeof(txt) < 2 tests the size of a pointer and never holds.             *)

Digits == <<"0", "1", "2", "3", "4", "5", "6", "7", "8", "9">>

itoa(val) ==
    IF (val >= 0) /\ (val <= 59)
    THEN <<Digits[(val \div 10) + 1], Digits[(val % 10) + 1]>>
    ELSE <<"!", "!">>

\* The number a two-character text shows on the watch; -1 when it is no number.
IsDigit(c) == \E d \in 1..10 : Digits[d] = c
DigitOf(c) == (CHOOSE d \in 1..10 : Digits[d] = c) - 1
Shown(txt) ==
    IF IsDigit(txt[1]) /\ IsDigit(txt[2])
    THEN 10 * DigitOf(txt[1]) + DigitOf(txt[2])
    ELSE -1

----------------------------------------------------------------------------
(* Display helpers. *)

redisplay_sec(cv, d) ==
    IF cv.sec # d.last_sec
    THEN [d EXCEPT !.sec_text = itoa(cv.sec), !.last_sec = cv.sec]
    ELSE d

\* Mutant of redisplay_min: the value is compared with last_sec.
redisplay_min_last_sec(cv, d) ==
    IF cv.min # d.last_sec
    THEN [d EXCEPT !.min_text = itoa(cv.min), !.last_min = cv.min]
    ELSE d

redisplay_min(cv, d) ==
    IF cv.min # d.last_min
    THEN [d EXCEPT !.min_text = itoa(cv.min), !.last_min = cv.min]
    ELSE d

redisplay_timer(cv, d) == redisplay_sec(cv, redisplay_min(cv, d))

remove_button(bd, button_id) ==
    IF bd[button_id].state = PRESENT
    THEN [bd EXCEPT ![button_id] = [state |-> NOT_PRESENT, bitmap |-> NoBitmap]]
    ELSE bd

display_button(bd, button_id, res_id) ==
    [remove_button(bd, button_id) EXCEPT
        ![button_id] = [state |-> PRESENT, bitmap |-> res_id]]

\* text_layer_set_text_color followed by text_layer_set_background_color
set_colors(tl, layer, text, background) ==
    [tl EXCEPT ![layer] = [text_color |-> text, background_color |-> background]]

\* text_layer_set_background_color alone
set_background(tl, layer, background) ==
    [tl EXCEPT ![layer].background_color = background]

\* text_layer_set_background_color called once for each colour, in order
RECURSIVE set_backgrounds(_, _, _)
set_backgrounds(tl, layer, colors) ==
    IF colors = <<>>
    THEN tl
    ELSE set_backgrounds(set_background(tl, layer, Head(colors)), layer, Tail(colors))

----------------------------------------------------------------------------
(* Pieces of the handlers. *)

\* Mutant of IncWrap: no wrap after 59.
IncNoWrap(v) == v + 1

\* Increment, wrap to 0 after 59
IncWrap(v) == IF v = 59 THEN 0 ELSE v + 1

\* Mutant of DecWrap: no wrap after 0.
DecNoWrap(v) == v - 1

\* Decrement, wrap to 59 after 0
DecWrap(v) == IF v = 0 THEN 59 ELSE v - 1

\* Mutant of StartSeconds: the seconds of curr_val are left out.
StartFromMinutes(cv) == cv.min * 60

\* seconds = (curr_val.min * 60) + curr_val.sec
StartSeconds(cv) == (cv.min * 60) + cv.sec

\* Mutant of StartedRunning: the timer starts whatever the duration.
StartedAlways(s) == TRUE

\* timer_running = (seconds != 0)
StartedRunning(s) == (s # 0)

\* Mutant of CopyInit: curr_val keeps the time that was left.
CopyInitNone(cv, iv) == cv

\* Mutant of CopyInit: the minutes are not copied.
CopyInitSec(cv, iv) == [cv EXCEPT !.sec = iv.sec]

\* curr_val.sec = init_val.sec; curr_val.min = init_val.min
CopyInit(cv, iv) == [cv EXCEPT !.sec = iv.sec, !.min = iv.min]

\* Buttons when the timer starts: pause image, no select image, no down image
StartButtons(bd) ==
    remove_button(
        remove_button(
            display_button(bd, BUTTON_ID_UP, RESOURCE_ID_PAUSE_IMAGE),
            BUTTON_ID_SELECT),
        BUTTON_ID_DOWN)

\* Mutant of PauseButtons: the mode image is not put back on Select.
PauseButtonsNoMode(bd) ==
    display_button(
        display_button(bd, BUTTON_ID_UP, RESOURCE_ID_START_IMAGE),
        BUTTON_ID_DOWN, RESOURCE_ID_RESET_IMAGE)

\* Buttons when the timer is paused
PauseButtons(bd) ==
    display_button(
        display_button(
            display_button(bd, BUTTON_ID_UP, RESOURCE_ID_START_IMAGE),
            BUTTON_ID_SELECT, RESOURCE_ID_MODE_IMAGE),
        BUTTON_ID_DOWN, RESOURCE_ID_RESET_IMAGE)

\* Mutant of ResetButtons: the mode image is not put back on Select.
ResetButtonsNoMode(bd, cv) ==
    IF (cv.sec + cv.min) # 0
    THEN display_button(bd, BUTTON_ID_UP, RESOURCE_ID_START_IMAGE)
    ELSE bd

\* if ((curr_val.sec + curr_val.min) != 0): only display start button if non-zero
ResetButtons(bd, cv) ==
    IF (cv.sec + cv.min) # 0
    THEN display_button(
             display_button(bd, BUTTON_ID_UP, RESOURCE_ID_START_IMAGE),
             BUTTON_ID_SELECT, RESOURCE_ID_MODE_IMAGE)
    ELSE bd

\* Mutant of RunButtons: the reset image is not put on Down.
RunButtonsNoReset(bd) == display_button(bd, BUTTON_ID_UP, RESOURCE_ID_START_IMAGE)

\* Buttons on leaving edit mode
RunButtons(bd) ==
    display_button(
        display_button(bd, BUTTON_ID_UP, RESOURCE_ID_START_IMAGE),
        BUTTON_ID_DOWN, RESOURCE_ID_RESET_IMAGE)

\* Mutant of EditButtons: the minus image is not put on Down.
EditButtonsNoMinus(bd) ==
    display_button(
        display_button(bd, BUTTON_ID_UP, RESOURCE_ID_PLUS_IMAGE),
        BUTTON_ID_SELECT, RESOURCE_ID_MODE_IMAGE)

\* Buttons on entering edit mode
EditButtons(bd) ==
    display_button(
        display_button(
            display_button(bd, BUTTON_ID_UP, RESOURCE_ID_PLUS_IMAGE),
            BUTTON_ID_SELECT, RESOURCE_ID_MODE_IMAGE),
        BUTTON_ID_DOWN, RESOURCE_ID_MINUS_IMAGE)

\* Mutant of HighlightMin: the seconds stay highlighted.
HighlightMinOnly(tl) == set_colors(tl, text_min_layer, GColorBlack, GColorWhite)

\* Change to editing minutes: unhighlight seconds, highlight minutes
HighlightMin(tl) ==
    set_colors(set_colors(tl, text_sec_layer, GColorWhite, GColorBlack),
               text_min_layer, GColorBlack, GColorWhite)

\* Change to editing seconds: highlight seconds, unhighlight minutes
HighlightSec(tl) ==
    set_colors(set_colors(tl, text_sec_layer, GColorBlack, GColorWhite),
               text_min_layer, GColorWhite, GColorBlack)

\* Mutant of LeaveEditSec: the minutes layer is reset, the seconds stay highlighted.
LeaveEditSecWrongLayer(tl) == set_colors(tl, text_min_layer, GColorWhite, GColorBlack)

\* Leaving edit mode from editing seconds: unhighlight seconds
LeaveEditSec(tl) == set_colors(tl, text_sec_layer, GColorWhite, GColorBlack)

\* Leaving edit mode from editing minutes: unhighlight minutes
LeaveEditMin(tl) == set_colors(tl, text_min_layer, GColorWhite, GColorBlack)

\* Entering edit mode: clear "Time's Up", highlight minutes
EnterEditMin(tl) ==
    set_colors(set_background(tl, text_times_up_layer, GColorBlack),
               text_min_layer, GColorBlack, GColorWhite)

\* Mutant of ResetAllowed: Down resets while the timer is running too.
ResetAlways(running) == TRUE

\* if (!timer_running) of down_single_click_handler
ResetAllowed(running) == ~running

\* Mutant of ExpiryBanner: "Time's Up" is not cleared again.
ExpiryBannerKept == <<GColorWhite>>

\* The "Time's Up" background when the time is up: white to display the message,
\* then black again after the automatic reset
ExpiryBanner == <<GColorWhite, GColorBlack>>

\* Mutant of LongClickAllowed: the mode changes while the timer is running too.
LongClickAlways(running) == TRUE

\* if (!timer_running) of select_long_click_handler: the mode cannot be changed
\* while the timer is running
LongClickAllowed(running) == ~running

\* Mutant of TickActive: the tick counts down whether the timer runs or not.
TickAlways(running) == TRUE

\* Mutant of TickActive: the test is inverted.
TickInverted(running) == ~running

\* if (timer_running) of handle_second_tick
TickActive(running) == running

\* Mutant of decrement_timer: the minutes of curr_val are not recomputed.
decrement_timer_no_min(s, cv, d) ==
    IF s > 0
    THEN LET s1  == s - 1
             cv1 == [cv EXCEPT !.sec = s1 % 60]
         IN  [seconds |-> s1, curr_val |-> cv1, display |-> redisplay_timer(cv1, d),
              hit |-> (s1 = 0)]
    ELSE [seconds |-> 0, curr_val |-> cv, display |-> d, hit |-> TRUE]

\* Mutant of decrement_timer: the seconds of curr_val are not reduced modulo 60.
decrement_timer_no_mod(s, cv, d) ==
    IF s > 0
    THEN LET s1  == s - 1
             cv1 == [cv EXCEPT !.min = s1 \div 60, !.sec = s1]
         IN  [seconds |-> s1, curr_val |-> cv1, display |-> redisplay_timer(cv1, d),
              hit |-> (s1 = 0)]
    ELSE [seconds |-> 0, curr_val |-> cv, display |-> d, hit |-> TRUE]

\* Mutant of decrement_timer: zero is tested before the decrement, not after.
decrement_timer_late(s, cv, d) ==
    IF s > 0
    THEN LET s1  == s - 1
             cv1 == [cv EXCEPT !.min = s1 \div 60, !.sec = s1 % 60]
         IN  [seconds |-> s1, curr_val |-> cv1, display |-> redisplay_timer(cv1, d),
              hit |-> (s = 0)]
    ELSE [seconds |-> 0, curr_val |-> cv, display |-> d, hit |-> TRUE]

\* decrement_timer: the new seconds, curr_val and display, and the value returned
decrement_timer(s, cv, d) ==
    IF s > 0
    THEN LET s1  == s - 1
             cv1 == [cv EXCEPT !.min = s1 \div 60, !.sec = s1 % 60]
         IN  [seconds |-> s1, curr_val |-> cv1, display |-> redisplay_timer(cv1, d),
              hit |-> (s1 = 0)]
    ELSE [seconds |-> 0, curr_val |-> cv, display |-> d, hit |-> TRUE]

----------------------------------------------------------------------------
(* The handlers.  vibe_log is the handler's call of                        *)
(* vibes_enqueue_custom_pattern: 1 when it makes the call, 0 when not;      *)
(* banner_log is its calls of text_layer_set_background_color on            *)
(* text_times_up_layer.                                                     *)

up_single_click_handler ==
    /\ vibe_log' = 0
    /\ banner_log' = <<>>
    /\ UNCHANGED <<current_mode, text_layer, subscribed>>
    /\ CASE current_mode = MODE_EDIT_SEC ->
              /\ init_val' = [init_val EXCEPT !.sec = IncWrap(init_val.sec)]
              /\ curr_val' = [curr_val EXCEPT !.sec = init_val'.sec]
              /\ display' = redisplay_sec(curr_val', display)
              /\ UNCHANGED <<timer_running, seconds, button_data>>
         [] current_mode = MODE_EDIT_MIN ->
              /\ init_val' = [init_val EXCEPT !.min = IncWrap(init_val.min)]
              /\ curr_val' = [curr_val EXCEPT !.min = init_val'.min]
              /\ display' = redisplay_min(curr_val', display)
              /\ UNCHANGED <<timer_running, seconds, button_data>>
         [] current_mode = MODE_RUN ->
              /\ UNCHANGED <<init_val, curr_val, display>>
              /\ IF ~timer_running
                 THEN \* Start the timer
                      /\ seconds' = StartSeconds(curr_val)
                      /\ button_data' = IF seconds' # 0
                                        THEN StartButtons(button_data)
                                        ELSE button_data
                      /\ timer_running' = StartedRunning(seconds')
                 ELSE \* Pause the timer
                      /\ timer_running' = FALSE
                      /\ button_data' = PauseButtons(button_data)
                      /\ UNCHANGED seconds

select_single_click_handler ==
    /\ vibe_log' = 0
    /\ banner_log' = <<>>
    /\ UNCHANGED <<init_val, curr_val, timer_running, seconds, button_data, display,
                   subscribed>>
    /\ CASE current_mode = MODE_EDIT_SEC ->
              \* Change to editing minutes, unhighlight seconds, highlight minutes
              /\ current_mode' = MODE_EDIT_MIN
              /\ text_layer' = HighlightMin(text_layer)
         [] current_mode = MODE_EDIT_MIN ->
              \* Change to editing seconds, highlight seconds, unhighlight minutes
              /\ current_mode' = MODE_EDIT_SEC
              /\ text_layer' = HighlightSec(text_layer)
         [] current_mode = MODE_RUN ->
              UNCHANGED <<current_mode, text_layer>>

select_long_click_handler ==
    /\ vibe_log' = 0
    /\ UNCHANGED <<init_val, timer_running, seconds, subscribed>>
    /\ CASE current_mode = MODE_EDIT_SEC ->
              /\ current_mode' = MODE_RUN
              /\ text_layer' = LeaveEditSec(text_layer)
              /\ button_data' = RunButtons(button_data)
              /\ banner_log' = <<>>
              /\ UNCHANGED <<curr_val, display>>
         [] current_mode = MODE_EDIT_MIN ->
              /\ current_mode' = MODE_RUN
              /\ text_layer' = LeaveEditMin(text_layer)
              /\ button_data' = RunButtons(button_data)
              /\ banner_log' = <<>>
              /\ display' = redisplay_timer(curr_val, display)
              /\ UNCHANGED curr_val
         [] current_mode = MODE_RUN ->
              IF LongClickAllowed(timer_running)
              THEN /\ current_mode' = MODE_EDIT_MIN
                   /\ text_layer' = EnterEditMin(text_layer)
                   /\ banner_log' = <<GColorBlack>>
                   /\ curr_val' = CopyInit(curr_val, init_val)
                   /\ button_data' = EditButtons(button_data)
                   /\ display' = redisplay_timer(curr_val', display)
              ELSE /\ banner_log' = <<>>
                   /\ UNCHANGED <<current_mode, text_layer, curr_val, button_data,
                                  display>>

down_single_click_handler ==
    /\ vibe_log' = 0
    \* Clear "Time's Up"
    /\ banner_log' = <<GColorBlack>>
    /\ text_layer' = set_backgrounds(text_layer, text_times_up_layer, banner_log')
    /\ UNCHANGED <<current_mode, timer_running, seconds, subscribed>>
    /\ CASE current_mode = MODE_EDIT_SEC ->
              /\ init_val' = [init_val EXCEPT !.sec = DecWrap(init_val.sec)]
              /\ curr_val' = [curr_val EXCEPT !.sec = init_val'.sec]
              /\ display' = redisplay_sec(curr_val', display)
              /\ UNCHANGED button_data
         [] current_mode = MODE_EDIT_MIN ->
              /\ init_val' = [init_val EXCEPT !.min = DecWrap(init_val.min)]
              /\ curr_val' = [curr_val EXCEPT !.min = init_val'.min]
              /\ display' = redisplay_min(curr_val', display)
              /\ UNCHANGED button_data
         [] current_mode = MODE_RUN ->
              IF ResetAllowed(timer_running)
              THEN \* Reset the timer to the start value
                   /\ curr_val' = CopyInit(curr_val, init_val)
                   /\ button_data' = ResetButtons(button_data, curr_val')
                   /\ display' = redisplay_timer(curr_val', display)
                   /\ UNCHANGED init_val
              ELSE \* Timer is running, no action
                   UNCHANGED <<init_val, curr_val, button_data, display>>

handle_second_tick ==
    /\ UNCHANGED <<current_mode, init_val, subscribed>>
    /\ IF TickActive(timer_running)
       THEN LET dec == decrement_timer(seconds, curr_val, display) IN
            /\ seconds' = dec.seconds
            /\ IF dec.hit
               THEN \* Time is up
                    /\ timer_running' = FALSE
                    /\ vibe_log' = 1
                    /\ curr_val' = CopyInit(dec.curr_val, init_val)
                    /\ button_data' =
                          ResetButtons(
                              display_button(remove_button(button_data, BUTTON_ID_UP),
                                             BUTTON_ID_DOWN, RESOURCE_ID_RESET_IMAGE),
                              curr_val')
                    /\ display' = redisplay_timer(curr_val', dec.display)
                    \* "Time's Up" is shown (white) and cleared (black) again
                    /\ banner_log' = ExpiryBanner
                    /\ text_layer' = set_backgrounds(text_layer, text_times_up_layer,
                                                     banner_log')
               ELSE /\ curr_val' = dec.curr_val
                    /\ display' = dec.display
                    /\ vibe_log' = 0
                    /\ banner_log' = <<>>
                    /\ UNCHANGED <<timer_running, button_data, text_layer>>
       ELSE /\ vibe_log' = 0
            /\ banner_log' = <<>>
            /\ UNCHANGED <<curr_val, timer_running, seconds, button_data, display,
                           text_layer>>

\* set_click_config_provider: the buttons whose handlers are subscribed.  The
\* action bar calls it once, when the window is pushed at the end of handle_init.
set_click_config_provider(bd) ==
    {b \in {BUTTON_ID_UP, BUTTON_ID_SELECT, BUTTON_ID_DOWN} : bd[b].state = PRESENT}

----------------------------------------------------------------------------
(* The state after handle_init. *)

NoButtons == [b \in ButtonId |-> [state |-> NOT_PRESENT, bitmap |-> NoBitmap]]

\* static char text[] = "XX"; static int last = -1
NoDisplay == [min_text |-> <<"X", "X">>, last_min |-> 0 - 1,
              sec_text |-> <<"X", "X">>, last_sec |-> 0 - 1]

\* Display initial button images
InitButtons ==
    display_button(
        display_button(
            display_button(NoButtons, BUTTON_ID_UP, RESOURCE_ID_START_IMAGE),
            BUTTON_ID_SELECT, RESOURCE_ID_MODE_IMAGE),
        BUTTON_ID_DOWN, RESOURCE_ID_RESET_IMAGE)

handle_init ==
    /\ current_mode = MODE_RUN
    /\ init_val = [min |-> 1, sec |-> 0]
    /\ curr_val = [min |-> 1, sec |-> 0]
    /\ timer_running = FALSE
    /\ seconds = 0
    /\ text_layer =
          [l \in {text_min_layer, text_sec_layer, text_times_up_layer} |->
              IF l = text_times_up_layer
              THEN [text_color |-> GColorBlack, background_color |-> GColorBlack]
              ELSE [text_color |-> GColorWhite, background_color |-> GColorBlack]]
    /\ button_data = InitButtons
    /\ display = redisplay_timer(curr_val, NoDisplay)
    /\ subscribed = set_click_config_provider(button_data)
    /\ vibe_log = 0
    /\ banner_log = <<GColorBlack>>

----------------------------------------------------------------------------
(* The events of the event loop.  Each is one handler run to completion,    *)
(* together with the history variables that record what was observed.       *)

\* Edit values explored: an Up press is made below the bound and at 59 (it wraps
\* to 0).
UpExplored ==
    CASE current_mode = MODE_EDIT_SEC ->
              init_val.sec < MaxEditSec \/ init_val.sec = 59
      [] current_mode = MODE_EDIT_MIN ->
              init_val.min < MaxEditMin \/ init_val.min = 59
      [] current_mode = MODE_RUN -> TRUE

\* A Down press is made at 0 (it wraps to 59) and up to the bound.
DownExplored ==
    CASE current_mode = MODE_EDIT_SEC -> init_val.sec <= MaxEditSec
      [] current_mode = MODE_EDIT_MIN -> init_val.min <= MaxEditMin
      [] current_mode = MODE_RUN -> TRUE

\* A run of ticks is observed from the state a button event leaves, when the
\* timer is running there with at most MaxObservedRun seconds left.
Observe(ev) ==
    /\ last_event' = ev
    /\ edit_before' = init_val
    /\ select_hist' = IF ev = "SelectShort"
                      THEN IF select_hist = <<>>
                           THEN <<progVars>>
                           ELSE <<progVars, select_hist[1]>>
                      ELSE <<>>
    /\ IF ev = "Tick"
       THEN IF run_r > 0 /\ run_k < run_r
            THEN /\ run_k' = run_k + 1
                 /\ run_vibes' = run_vibes + vibe_log'
                 /\ UNCHANGED run_r
            ELSE UNCHANGED <<run_r, run_k, run_vibes>>
       ELSE /\ run_r' = IF timer_running' /\ seconds' <= MaxObservedRun
                        THEN seconds' ELSE 0
            /\ run_k' = 0
            /\ run_vibes' = 0

\* A countdown is started (or resumed) with at most MaxLiveStart seconds.
RunIdleStartable ==
    (current_mode = MODE_RUN /\ ~timer_running) => StartSeconds(curr_val) <= MaxLiveStart

Up ==
    /\ BUTTON_ID_UP \in subscribed
    /\ UpExplored
    /\ up_single_click_handler
    /\ Observe("Up")
    /\ UNCHANGED wrapVars

Down ==
    /\ BUTTON_ID_DOWN \in subscribed
    /\ DownExplored
    /\ down_single_click_handler
    /\ Observe("Down")
    /\ UNCHANGED wrapVars

SelectShort ==
    /\ BUTTON_ID_SELECT \in subscribed
    /\ select_single_click_handler
    /\ Observe("SelectShort")
    /\ UNCHANGED wrapVars

SelectLong ==
    /\ BUTTON_ID_SELECT \in subscribed
    /\ select_long_click_handler
    /\ Observe("SelectLong")
    /\ UNCHANGED wrapVars

Tick ==
    /\ handle_second_tick
    /\ Observe("Tick")
    /\ UNCHANGED wrapVars

Init ==
    /\ handle_init
    /\ last_event = "Init"
    /\ run_r = 0
    /\ run_k = 0
    /\ run_vibes = 0
    /\ select_hist = <<>>
    /\ edit_before = init_val
    /\ wrap_n = 0
    /\ wrap_count = 0
    /\ wrap_dir = "None"

Next == Up \/ Down \/ SelectShort \/ SelectLong \/ Tick

Spec == Init /\ [][Next]_vars

\* The tick timer service delivers a tick every second, and the event loop runs
\* its handler once the handler before it has returned: a tick that can change the
\* state is not put off for ever.  Countdowns of at most MaxLiveStart seconds are
\* started here.
UpLive ==
    /\ RunIdleStartable
    /\ Up

NextLive == UpLive \/ Down \/ SelectShort \/ SelectLong \/ Tick

SpecLive == Init /\ [][NextLive]_vars /\ WF_vars(Tick)

----------------------------------------------------------------------------
(* Press sequences: from an edit mode with the edited value n, one button   *)
(* (Up or Down) is pressed up to MaxPresses times in a row.                 *)

\* The edit states the press sequences start from: the state SelectLong leaves
\* (editing minutes) or SelectLong, SelectShort leave (editing seconds), with the
\* edited value at n.
InitWrap ==
    /\ current_mode \in {MODE_EDIT_SEC, MODE_EDIT_MIN}
    /\ wrap_n \in 0..59
    /\ wrap_dir \in {"Up", "Down"}
    /\ wrap_count = 0
    /\ init_val = IF current_mode = MODE_EDIT_SEC
                  THEN [min |-> 1, sec |-> wrap_n]
                  ELSE [min |-> wrap_n, sec |-> 0]
    /\ curr_val = init_val
    /\ timer_running = FALSE
    /\ seconds = 0
    /\ text_layer =
          [l \in {text_min_layer, text_sec_layer, text_times_up_layer} |->
              IF l = text_times_up_layer
              THEN [text_color |-> GColorBlack, background_color |-> GColorBlack]
              ELSE IF (l = text_sec_layer) = (current_mode = MODE_EDIT_SEC)
                   THEN [text_color |-> GColorBlack, background_color |-> GColorWhite]
                   ELSE [text_color |-> GColorWhite, background_color |-> GColorBlack]]
    /\ button_data = EditButtons(InitButtons)
    /\ display = redisplay_timer(curr_val, NoDisplay)
    /\ subscribed = set_click_config_provider(InitButtons)
    /\ vibe_log = 0
    /\ banner_log = <<>>
    /\ select_hist = <<>>
    /\ edit_before = init_val
    /\ last_event = "Init"
    /\ run_r = 0
    /\ run_k = 0
    /\ run_vibes = 0

WrapUp ==
    /\ wrap_dir = "Up"
    /\ wrap_count < MaxPresses
    /\ BUTTON_ID_UP \in subscribed
    /\ up_single_click_handler
    /\ Observe("Up")
    /\ wrap_count' = wrap_count + 1
    /\ UNCHANGED <<wrap_n, wrap_dir>>

WrapDown ==
    /\ wrap_dir = "Down"
    /\ wrap_count < MaxPresses
    /\ BUTTON_ID_DOWN \in subscribed
    /\ down_single_click_handler
    /\ Observe("Down")
    /\ wrap_count' = wrap_count + 1
    /\ UNCHANGED <<wrap_n, wrap_dir>>

NextWrap == WrapUp \/ WrapDown

SpecWrap == InitWrap /\ [][NextWrap]_vars

----------------------------------------------------------------------------
(* Terms of the specification, read off the program state. *)

edit_minutes == init_val.min
edit_seconds == init_val.sec
remaining_seconds == seconds
is_running == timer_running
displayed_minutes == Shown(display.min_text)
displayed_seconds == Shown(display.sec_text)
Editing == current_mode \in {MODE_EDIT_SEC, MODE_EDIT_MIN}
RunIdle == current_mode = MODE_RUN /\ ~timer_running
RunActive == current_mode = MODE_RUN /\ timer_running
Icon(b) == IF button_data[b].state = PRESENT THEN button_data[b].bitmap ELSE "None"
Banner == text_layer[text_times_up_layer].background_color = GColorWhite

TypeOK ==
    /\ current_mode \in Modes
    /\ timer_running \in BOOLEAN
    /\ seconds \in Nat
    /\ vibe_log \in 0..1
    /\ subscribed = {BUTTON_ID_UP, BUTTON_ID_SELECT, BUTTON_ID_DOWN}

----------------------------------------------------------------------------
(* Properties. *)

Total(v) == (v.min * 60) + v.sec
DisplayedIs(m, s) == displayed_minutes = m /\ displayed_seconds = s

\* C1: editing is unreachable while the timer is running: in no reachable state
\* is the mode EditSeconds or EditMinutes with timer_running true.
C1_NoEditWhileRunning == ~(Editing /\ timer_running)

\* A long click on Select was handled while the timer was running, and the mode
\* is still Run.
C1_Witness == last_event = "SelectLong" /\ timer_running /\ current_mode = MODE_RUN

\* An observed run of ticks that started with r seconds left: the timer is running
\* and has not vibrated after fewer than r ticks, and has stopped and vibrated once
\* after r ticks.
C2_RunInv ==
    run_r > 0 =>
        /\ run_k < run_r =>
              timer_running /\ run_vibes = 0 /\ seconds = run_r - run_k
        /\ run_k = run_r =>
              ~timer_running /\ run_vibes = 1 /\ seconds = 0
        /\ run_k <= run_r

\* One tick of a running timer with r seconds left: r >= 1, one second less is
\* left, and the timer stops and vibrates exactly when r = 1.
C2_TickStep ==
    (last_event' = "Tick" /\ timer_running) =>
        /\ current_mode = MODE_RUN
        /\ seconds >= 1
        /\ seconds' = seconds - 1
        /\ timer_running' = (seconds > 1)
        /\ vibe_log' = IF seconds = 1 THEN 1 ELSE 0

\* C2: from a RunActive state with remaining_seconds = r >= 1, a run of ticks with
\* no button event in between keeps the timer running for the first r-1 ticks and
\* stops it at exactly the r-th; the vibration is requested exactly once, at the
\* r-th tick, where remaining_seconds reaches 0.
C2_ExactTicks == [](C2_RunInv) /\ [][C2_TickStep]_vars

\* A run of at least three ticks was observed to its end.
C2_Witness ==
    /\ last_event = "Tick"
    /\ run_r >= 3
    /\ run_k = run_r
    /\ run_vibes = 1
    /\ RunIdle

\* Up in RunIdle with the edit values 0:00 leaves the timer stopped in Run mode,
\* without the pause image.
C3_ZeroStep ==
    (last_event' = "Up" /\ RunIdle /\ edit_minutes = 0 /\ edit_seconds = 0) =>
        /\ ~timer_running'
        /\ current_mode' = MODE_RUN
        /\ Icon(BUTTON_ID_UP)' # RESOURCE_ID_PAUSE_IMAGE

\* C3: zero-duration guard: in every RunIdle state with the edit values 0:00 an Up
\* event leaves timer_running false (no pause image), and the timer is never
\* running with the edit values 0:00.
C3_ZeroGuard ==
    /\ [](~(timer_running /\ edit_minutes = 0 /\ edit_seconds = 0))
    /\ [][C3_ZeroStep]_vars

\* Up was pressed in Run mode with the edit values 0:00.
C3_Witness ==
    /\ last_event = "Up"
    /\ RunIdle
    /\ edit_minutes = 0
    /\ edit_seconds = 0
    /\ seconds = 0

\* C4: in every reachable state edit_minutes (init_val.min) and edit_seconds
\* (init_val.sec) are both in 0..59.
C4_EditRange == init_val.min \in 0..59 /\ init_val.sec \in 0..59

\* The minutes were wrapped down to 59 and Up has just wrapped the seconds from 59
\* to 0.
C4_Witness ==
    /\ last_event = "Up"
    /\ current_mode = MODE_EDIT_SEC
    /\ init_val.min = 59
    /\ init_val.sec = 0
    /\ displayed_seconds = 0

\* The value being edited.
Edited == IF current_mode = MODE_EDIT_SEC THEN init_val.sec ELSE init_val.min

\* C5 as stated: 59 consecutive Up events, and 59 consecutive Down events, return
\* the edited value to the value n they started from.
C5_Wrap59 == wrap_count = 59 => Edited = wrap_n

\* C5 amended: 60 consecutive Up events, and 60 consecutive Down events, return
\* the edited value to the value n they started from; 59 of them leave it one
\* step short: at (n+59) mod 60 after Up events, at (n+1) mod 60 after Down events.
C5_Wrap60 ==
    /\ wrap_count = 60 => Edited = wrap_n
    /\ wrap_count = 59 =>
          Edited = IF wrap_dir = "Up" THEN (wrap_n + 59) % 60 ELSE (wrap_n + 1) % 60

\* Sixty presses were made from 59, the first of which wrapped (Up) or the last
\* of which wrapped (Down).
C5_Witness == wrap_count = 60 /\ wrap_n = 59 /\ Edited = 59

\* The buttons of a running timer.
RunningIcons ==
    /\ Icon(BUTTON_ID_UP) = RESOURCE_ID_PAUSE_IMAGE
    /\ Icon(BUTTON_ID_SELECT) = "None"
    /\ Icon(BUTTON_ID_DOWN) = "None"

\* C6 as stated: in every RunIdle state, one reached by pausing included, Up sets
\* remaining_seconds to edit_minutes*60 + edit_seconds; the timer runs exactly
\* when that is greater than 0, with the pause image and no other image.
C6_StartFromEdit ==
    [][(last_event' = "Up" /\ RunIdle) =>
          /\ seconds' = Total(init_val)
          /\ timer_running' = (seconds' > 0)
          /\ timer_running' => RunningIcons']_vars

\* C6 amended: in every RunIdle state Up sets remaining_seconds to the displayed
\* value, displayed_minutes*60 + displayed_seconds: that is the edit value, except
\* in a state reached by pausing, where it is the time that remained at the pause
\* (the countdown continues); the timer runs exactly when that is greater than 0,
\* with the pause image and no other image.
C6_StartFromDisplay ==
    [][(last_event' = "Up" /\ RunIdle) =>
          /\ seconds' = (displayed_minutes * 60) + displayed_seconds
          /\ \/ DisplayedIs(edit_minutes, edit_seconds) /\ seconds' = Total(init_val)
             \/ seconds >= 1 /\ seconds' = seconds /\ seconds < Total(init_val)
          /\ timer_running' = (seconds' > 0)
          /\ current_mode' = MODE_RUN
          /\ timer_running' => RunningIcons']_vars

\* Up has just resumed a paused countdown: the timer runs with less than the edit
\* value left.
C6_Witness ==
    /\ last_event = "Up"
    /\ RunActive
    /\ seconds < Total(init_val)
    /\ RunningIcons

\* C7: pause: Up in RunActive stops the timer, keeps the mode Run, leaves
\* remaining_seconds, the displayed values and the edit values unchanged, and
\* leaves the images Up=Start, Select=Mode, Down=Reset.
C7_Pause ==
    [][(last_event' = "Up" /\ RunActive) =>
          /\ ~timer_running'
          /\ current_mode' = MODE_RUN
          /\ seconds' = seconds
          /\ init_val' = init_val
          /\ displayed_minutes' = displayed_minutes
          /\ displayed_seconds' = displayed_seconds
          /\ DisplayedIs(seconds \div 60, seconds % 60)'
          /\ Icon(BUTTON_ID_UP)' = RESOURCE_ID_START_IMAGE
          /\ Icon(BUTTON_ID_SELECT)' = RESOURCE_ID_MODE_IMAGE
          /\ Icon(BUTTON_ID_DOWN)' = RESOURCE_ID_RESET_IMAGE]_vars

\* Up has just paused a countdown part-way.
C7_Witness ==
    /\ last_event = "Up"
    /\ RunIdle
    /\ seconds >= 1
    /\ seconds < Total(init_val)
    /\ DisplayedIs(seconds \div 60, seconds % 60)

\* C8: reset: Down in RunIdle makes the displayed values the edit values, leaves
\* the edit values unchanged, keeps the timer stopped in Run mode and, when the
\* edit values are not both zero, shows the start image on Up and the mode image
\* on Select.
C8_Reset ==
    [][(last_event' = "Down" /\ RunIdle) =>
          /\ init_val' = init_val
          /\ DisplayedIs(edit_minutes, edit_seconds)'
          /\ RunIdle'
          /\ (edit_minutes # 0 \/ edit_seconds # 0) =>
                /\ Icon(BUTTON_ID_UP)' = RESOURCE_ID_START_IMAGE
                /\ Icon(BUTTON_ID_SELECT)' = RESOURCE_ID_MODE_IMAGE]_vars

\* Down has just reset a countdown that was stopped part-way: the display is back
\* at the edit values, remaining_seconds still holds the time that remained.
C8_Witness ==
    /\ last_event = "Down"
    /\ RunIdle
    /\ seconds >= 1
    /\ seconds < Total(init_val)
    /\ DisplayedIs(edit_minutes, edit_seconds)
    /\ Icon(BUTTON_ID_UP) = RESOURCE_ID_START_IMAGE

\* C9 as stated: while the timer runs the display shows remaining_seconds / 60 and
\* remaining_seconds % 60; in every state where it does not run the display shows
\* the edit values.
C9_DisplayRule ==
    /\ timer_running => DisplayedIs(seconds \div 60, seconds % 60)
    /\ ~timer_running => DisplayedIs(edit_minutes, edit_seconds)

\* C9 amended: while the timer runs the display shows remaining_seconds / 60 and
\* remaining_seconds % 60; where it does not run the display shows the edit
\* values, except in Run mode after a pause, where it still shows the remaining
\* time (remaining_seconds / 60 and remaining_seconds % 60, at least one second).
C9_DisplayRulePaused ==
    /\ timer_running => DisplayedIs(seconds \div 60, seconds % 60)
    /\ ~timer_running =>
          \/ DisplayedIs(edit_minutes, edit_seconds)
          \/ /\ current_mode = MODE_RUN
             /\ seconds >= 1
             /\ DisplayedIs(seconds \div 60, seconds % 60)

\* A countdown of a minute or more was paused with under a minute left, and a
\* tick has passed since: the display still shows the remaining time, not the
\* edit values.
C9_Witness ==
    /\ last_event = "Tick"
    /\ RunIdle
    /\ edit_minutes >= 1
    /\ seconds >= 1
    /\ seconds < 60
    /\ DisplayedIs(0, seconds)
    /\ ~DisplayedIs(edit_minutes, edit_seconds)

\* C10: a tick delivered while the timer is not running changes nothing: mode,
\* timer_running, remaining_seconds, edit values, displayed values, images,
\* highlight and banner are unchanged, and no vibration is requested.
C10_IdleTick ==
    [][(last_event' = "Tick" /\ ~timer_running) =>
          /\ UNCHANGED progVars
          /\ displayed_minutes' = displayed_minutes
          /\ displayed_seconds' = displayed_seconds
          /\ vibe_log' = 0]_vars

\* A tick was handled in edit mode while remaining_seconds still held the time
\* left of a countdown stopped earlier.
C10_Witness ==
    /\ last_event = "Tick"
    /\ Editing
    /\ seconds >= 1
    /\ ~timer_running

----------------------------------------------------------------------------
(* Properties of the remaining events. *)

\* A region shown in inverse video, and one shown normally.
Highlighted(layer) ==
    text_layer[layer] = [text_color |-> GColorBlack, background_color |-> GColorWhite]
Plain(layer) ==
    text_layer[layer] = [text_color |-> GColorWhite, background_color |-> GColorBlack]

\* Down, SelectShort or SelectLong while the timer runs changes nothing.
C11_NoOpStep ==
    (last_event' \in {"Down", "SelectShort", "SelectLong"} /\ RunActive) =>
        /\ UNCHANGED <<current_mode, timer_running, seconds, init_val, curr_val,
                       display, button_data>>
        /\ displayed_minutes' = displayed_minutes
        /\ displayed_seconds' = displayed_seconds
        /\ RunActive'

\* RunActive is left by Up or by the tick that takes the last second.
C11_LeaveStep ==
    (RunActive /\ ~RunActive') =>
        \/ last_event' = "Up"
        \/ last_event' = "Tick" /\ seconds = 1 /\ vibe_log' = 1

\* C11: while the timer is running, Down, SelectShort and SelectLong are no-ops
\* (mode, timer_running, remaining_seconds, edit values, displayed values and
\* images unchanged), so only Up or an expiring tick leaves RunActive.
C11_RunningNoOps == [][C11_NoOpStep /\ C11_LeaveStep]_vars

\* Down was pressed part-way through a countdown, which still runs.
C11_Witness ==
    /\ last_event = "Down"
    /\ RunActive
    /\ seconds >= 1
    /\ seconds < Total(init_val)
    /\ DisplayedIs(seconds \div 60, seconds % 60)

\* One short click on Select: the edit mode alternates, Run mode is left alone,
\* and nothing but the mode and the highlight changes.
C12_Step ==
    last_event' = "SelectShort" =>
        /\ UNCHANGED <<init_val, curr_val, seconds, timer_running, display, button_data>>
        /\ current_mode = MODE_EDIT_SEC => current_mode' = MODE_EDIT_MIN
        /\ current_mode = MODE_EDIT_MIN => current_mode' = MODE_EDIT_SEC
        /\ current_mode = MODE_RUN => UNCHANGED progVars

\* C12: SelectShort alternates the edit focus and does nothing else (no change
\* in Run mode; edit values, remaining_seconds and timer_running unchanged), and
\* two consecutive SelectShort events restore the complete state.
C12_Alternate ==
    /\ [](Len(select_hist) = 2 => progVars = select_hist[2])
    /\ [][C12_Step]_vars

\* Two short clicks were made from editing seconds, through editing minutes.
C12_Witness ==
    /\ Len(select_hist) = 2
    /\ current_mode = MODE_EDIT_SEC
    /\ select_hist[1][1] = MODE_EDIT_MIN
    /\ select_hist[1] # progVars

\* C13 as stated: SelectLong in an edit mode moves to RunIdle with the edit values
\* unchanged, the displayed values equal to them, no region highlighted, and the
\* images Up=Start, Select hidden, Down=Reset.
C13_SelectHidden ==
    [][(last_event' = "SelectLong" /\ Editing) =>
          /\ RunIdle'
          /\ init_val' = init_val
          /\ DisplayedIs(edit_minutes, edit_seconds)'
          /\ Plain(text_min_layer)' /\ Plain(text_sec_layer)'
          /\ Icon(BUTTON_ID_UP)' = RESOURCE_ID_START_IMAGE
          /\ Icon(BUTTON_ID_SELECT)' = "None"
          /\ Icon(BUTTON_ID_DOWN)' = RESOURCE_ID_RESET_IMAGE]_vars

\* C13 amended: SelectLong in an edit mode moves to RunIdle with the edit values
\* unchanged, the displayed values equal to them, no region highlighted, and the
\* images Up=Start, Select=Mode (the image of the edit mode stays), Down=Reset.
C13_LeaveEdit ==
    [][(last_event' = "SelectLong" /\ Editing) =>
          /\ RunIdle'
          /\ init_val' = init_val
          /\ DisplayedIs(edit_minutes, edit_seconds)'
          /\ Plain(text_min_layer)' /\ Plain(text_sec_layer)'
          /\ Icon(BUTTON_ID_UP)' = RESOURCE_ID_START_IMAGE
          /\ Icon(BUTTON_ID_SELECT)' = RESOURCE_ID_MODE_IMAGE
          /\ Icon(BUTTON_ID_DOWN)' = RESOURCE_ID_RESET_IMAGE]_vars

\* A long click on Select has just left edit mode with edited values.
C13_Witness ==
    /\ last_event = "SelectLong"
    /\ RunIdle
    /\ init_val = [min |-> 0, sec |-> 2]
    /\ DisplayedIs(0, 2)
    /\ Icon(BUTTON_ID_SELECT) = RESOURCE_ID_MODE_IMAGE
    /\ Icon(BUTTON_ID_DOWN) = RESOURCE_ID_RESET_IMAGE

\* SelectLong in RunIdle enters EditMinutes, shows the edit values, highlights the
\* minutes and shows the plus, mode and minus images.
C14_EnterStep ==
    (last_event' = "SelectLong" /\ RunIdle) =>
        /\ current_mode' = MODE_EDIT_MIN
        /\ ~timer_running'
        /\ init_val' = init_val
        /\ curr_val' = init_val
        /\ DisplayedIs(edit_minutes, edit_seconds)'
        /\ Highlighted(text_min_layer)' /\ Plain(text_sec_layer)'
        /\ Icon(BUTTON_ID_UP)' = RESOURCE_ID_PLUS_IMAGE
        /\ Icon(BUTTON_ID_SELECT)' = RESOURCE_ID_MODE_IMAGE
        /\ Icon(BUTTON_ID_DOWN)' = RESOURCE_ID_MINUS_IMAGE

\* The start that follows the return from edit mode counts the edit duration.
C14_NextStart ==
    (last_event = "SelectLong" /\ last_event' = "Up" /\ RunIdle) =>
        seconds' = Total(init_val)

\* C14: SelectLong in any RunIdle state enters EditMinutes (never EditSeconds),
\* leaves the edit values unchanged, sets the displayed values to them (the time
\* left of a paused countdown is dropped, the next start counts the full edit
\* duration), highlights the minutes and shows Up=Plus, Select=Mode, Down=Minus.
C14_EnterEdit ==
    /\ [](Editing => (curr_val = init_val /\ DisplayedIs(edit_minutes, edit_seconds)))
    /\ [][C14_EnterStep /\ C14_NextStart]_vars

\* Edit mode was entered from a countdown stopped part-way: remaining_seconds
\* still holds the time that was left, the display shows the edit values.
C14_Witness ==
    /\ last_event = "SelectLong"
    /\ current_mode = MODE_EDIT_MIN
    /\ seconds >= 1
    /\ seconds < Total(init_val)
    /\ DisplayedIs(edit_minutes, edit_seconds)
    /\ Icon(BUTTON_ID_DOWN) = RESOURCE_ID_MINUS_IMAGE

\* One press in an edit mode: the edited field goes up by one (Up) or by 59
\* (Down) modulo 60, the other field, the mode and timer_running stay, and the
\* edited field is displayed.
C15_PressStep ==
    /\ (last_event' = "Up" /\ current_mode = MODE_EDIT_SEC) =>
          /\ init_val'.sec = (init_val.sec + 1) % 60
          /\ init_val'.min = init_val.min
          /\ displayed_seconds' = init_val'.sec
          /\ UNCHANGED <<current_mode, timer_running>>
    /\ (last_event' = "Down" /\ current_mode = MODE_EDIT_SEC) =>
          /\ init_val'.sec = (init_val.sec + 59) % 60
          /\ init_val'.min = init_val.min
          /\ displayed_seconds' = init_val'.sec
          /\ UNCHANGED <<current_mode, timer_running>>
    /\ (last_event' = "Up" /\ current_mode = MODE_EDIT_MIN) =>
          /\ init_val'.min = (init_val.min + 1) % 60
          /\ init_val'.sec = init_val.sec
          /\ displayed_minutes' = init_val'.min
          /\ UNCHANGED <<current_mode, timer_running>>
    /\ (last_event' = "Down" /\ current_mode = MODE_EDIT_MIN) =>
          /\ init_val'.min = (init_val.min + 59) % 60
          /\ init_val'.sec = init_val.sec
          /\ displayed_minutes' = init_val'.min
          /\ UNCHANGED <<current_mode, timer_running>>

\* Up after Down, and Down after Up, in an edit mode bring back the edit values
\* of before the two presses.
C15_UndoStep ==
    (Editing /\ <<last_event, last_event'>> \in {<<"Up", "Down">>, <<"Down", "Up">>}) =>
        init_val' = edit_before

\* C15: single edit step: in EditSeconds Up sets edit_seconds to
\* (edit_seconds+1) mod 60 and Down to (edit_seconds+59) mod 60, with edit_minutes,
\* mode and timer_running unchanged; symmetrically in EditMinutes; the edited
\* field is displayed; Up followed by Down, or Down followed by Up, restores the
\* edit value.
C15_EditStep == [][C15_PressStep /\ C15_UndoStep]_vars

\* Down wrapped the seconds from 0 to 59 and Up has just brought them back to 0.
C15_Witness ==
    /\ last_event = "Up"
    /\ current_mode = MODE_EDIT_SEC
    /\ edit_before.sec = 59
    /\ init_val.sec = 0
    /\ displayed_seconds = 0
    /\ init_val.min = 1

C17_Ranges ==
    /\ seconds \in 0..3599
    /\ curr_val.min \in 0..59
    /\ curr_val.sec \in 0..59
    /\ display.min_text # <<"!", "!">>
    /\ display.sec_text # <<"!", "!">>
    /\ displayed_minutes \in 0..59
    /\ displayed_seconds \in 0..59

\* A tick of the longest countdown: 59:59 has become 59:58.
C17_Witness ==
    /\ last_event = "Tick"
    /\ timer_running
    /\ seconds = 3598
    /\ curr_val = [min |-> 59, sec |-> 58]
    /\ DisplayedIs(59, 58)

\* Only Up with the timer stopped in Run mode sets timer_running.
C18_StartStep ==
    (~timer_running /\ timer_running') =>
        (last_event' = "Up" /\ current_mode = MODE_RUN)

\* A tick with the timer running takes one second off remaining_seconds.
C18_TickStep ==
    (last_event' = "Tick" /\ timer_running) => seconds' < seconds

\* C18: with weak fairness of the tick, a running timer eventually stops (the
\* time is up or Up pauses it) whatever buttons are pressed in between; only Up
\* in RunIdle sets timer_running and every tick of a running timer reduces
\* remaining_seconds.
C18_EventuallyStops ==
    /\ timer_running ~> ~timer_running
    /\ [][C18_StartStep /\ C18_TickStep]_vars

\* A countdown of several seconds has run down to its end, tick by tick.
C18_Witness ==
    /\ last_event = "Tick"
    /\ vibe_log = 1
    /\ ~timer_running
    /\ run_r >= 2
    /\ run_k = run_r

\* C19: the button images follow the operating state: RunIdle has Start, Mode
\* and Reset; RunActive has Pause with Select and Down empty; the edit modes
\* have Plus, Mode and Minus.  The edit values are not both zero while the
\* timer runs, so Up is not left empty when the time is up.
C19_Icons ==
    /\ RunIdle =>
          /\ Icon(BUTTON_ID_UP) = RESOURCE_ID_START_IMAGE
          /\ Icon(BUTTON_ID_SELECT) = RESOURCE_ID_MODE_IMAGE
          /\ Icon(BUTTON_ID_DOWN) = RESOURCE_ID_RESET_IMAGE
    /\ RunActive =>
          /\ Icon(BUTTON_ID_UP) = RESOURCE_ID_PAUSE_IMAGE
          /\ Icon(BUTTON_ID_SELECT) = "None"
          /\ Icon(BUTTON_ID_DOWN) = "None"
    /\ Editing =>
          /\ Icon(BUTTON_ID_UP) = RESOURCE_ID_PLUS_IMAGE
          /\ Icon(BUTTON_ID_SELECT) = RESOURCE_ID_MODE_IMAGE
          /\ Icon(BUTTON_ID_DOWN) = RESOURCE_ID_MINUS_IMAGE
    /\ timer_running => (init_val.min + init_val.sec) # 0

\* The time is up: the tick took Pause off Up and put Start, Mode and Reset back.
C19_Witness ==
    /\ last_event = "Tick"
    /\ vibe_log = 1
    /\ RunIdle
    /\ Icon(BUTTON_ID_UP) = RESOURCE_ID_START_IMAGE
    /\ Icon(BUTTON_ID_SELECT) = RESOURCE_ID_MODE_IMAGE

\* C20: the highlight follows the mode: the minutes are highlighted exactly in
\* EditMinutes, the seconds exactly in EditSeconds, neither in Run mode.
C20_Highlight ==
    /\ Highlighted(text_min_layer) <=> (current_mode = MODE_EDIT_MIN)
    /\ Highlighted(text_sec_layer) <=> (current_mode = MODE_EDIT_SEC)
    /\ (current_mode # MODE_EDIT_MIN) => Plain(text_min_layer)
    /\ (current_mode # MODE_EDIT_SEC) => Plain(text_sec_layer)

\* A short click has moved the highlight from the minutes to the seconds.
C20_Witness ==
    /\ last_event = "SelectShort"
    /\ current_mode = MODE_EDIT_SEC
    /\ Len(select_hist) = 1
    /\ select_hist[1][1] = MODE_EDIT_MIN
    /\ Highlighted(text_sec_layer)
    /\ Plain(text_min_layer)

\* C21: while the timer is running, remaining_seconds is at least 1 (the tick
\* that reaches zero also stops the timer) and at most the duration given by
\* the edit values, edit_minutes*60 + edit_seconds.
C21_RunningBounds ==
    is_running =>
        /\ 1 <= remaining_seconds
        /\ remaining_seconds <= (edit_minutes * 60) + edit_seconds

\* A countdown paused part-way was resumed and is down to its last second,
\* below the duration of the edit values.
C21_Witness ==
    /\ is_running
    /\ last_event = "Tick"
    /\ remaining_seconds = 1
    /\ (edit_minutes * 60) + edit_seconds = 62
    /\ DisplayedIs(0, 1)

====
